---- MODULE Spec2Model ----
(***************************************************************************)
(* Model of src/database/__init__.py: SSHTunnelManager, RedisConnector and *)
(* DBConnector.  One connector object is modelled; its class and its      *)
(* configuration are chosen in Init.  Every method is a pure operator on  *)
(* a record holding the object's fields, the resources it created and a   *)
(* log of the calls the method made; an action applies one method.        *)
(* SpecConfig starts before the constructor runs; SpecMySQL models the     *)
(* MySQL class of src/pymysql/database.py on the same variables.           *)
(***************************************************************************)
EXTENDS Naturals, Integers, Sequences, FiniteSets, TLC

\* Bounds of the model: how many forwarders / client objects one run creates.
MaxTunnels == 2
MaxConns == 2

VARIABLES
    cls,            \* "DBConnector", "RedisConnector" or "MySQL"
    use_ssh,        \* self.use_ssh
    db_type,        \* self.db_config['type'] ("none" for RedisConnector)
    client_autocommit, \* autocommit default of the MySQL client library
    cfg,            \* keys of the config dict handed to the constructor
    constructed,    \* "no" before __init__, then "yes", or "failed" if it raised
    is_connected,   \* self.is_connected
    conn,           \* self.conn / self.redis_conn: 0 is None, else the object's id
    cursor,         \* MySQL.cursor: 0 is None, else the id of its connection
    tunnel,         \* self.tunnel: 0 is None, else the forwarder's id
    host,           \* self.db_config['host'] / self.redis_config['host']
    openConns,      \* client connections that are open at the backend
    activeTunnels,  \* forwarders whose is_active is true
    nConns,         \* client objects created so far
    nTunnels,       \* forwarders created so far
    tunnelRemote,   \* remote_bind_address of the last forwarder created
    connPeer,       \* host the last client object was pointed at
    pending,        \* calls whose statements sit in the transaction open on conn
    op,             \* the method the caller invoked last
    outcome,        \* "ok", or the exception that reached the caller
    trace,          \* the calls and steps of the last method, in order
    teardown_failed,\* history: some close() or stop() call has raised so far
    scope           \* "out", or "in" while inside a with-block

vars == <<cls, use_ssh, db_type, client_autocommit, cfg, constructed, is_connected, conn, cursor, tunnel,
          host, openConns, activeTunnels, nConns, nTunnels, tunnelRemote, connPeer,
          pending, op, outcome, trace, teardown_failed, scope>>

config == <<cls, use_ssh, db_type, client_autocommit, cfg>>

----------------------------------------------------------------------------
\* The object's fields and resources as one record, at the start of a method.
Cur ==
    [is_connected |-> is_connected, conn |-> conn, cursor |-> cursor, tunnel |-> tunnel,
     host |-> host, openConns |-> openConns, activeTunnels |-> activeTunnels,
     nConns |-> nConns, nTunnels |-> nTunnels, tunnelRemote |-> tunnelRemote,
     connPeer |-> connPeer, pending |-> pending,
     teardown_failed |-> teardown_failed,
     outcome |-> "ok", trace |-> <<>>]

Set(r) ==
    /\ is_connected' = r.is_connected
    /\ conn' = r.conn
    /\ cursor' = r.cursor
    /\ tunnel' = r.tunnel
    /\ host' = r.host
    /\ openConns' = r.openConns
    /\ activeTunnels' = r.activeTunnels
    /\ nConns' = r.nConns
    /\ nTunnels' = r.nTunnels
    /\ tunnelRemote' = r.tunnelRemote
    /\ connPeer' = r.connPeer
    /\ pending' = r.pending
    /\ teardown_failed' = r.teardown_failed
    /\ outcome' = r.outcome
    /\ trace' = r.trace

Log(s, e) == [s EXCEPT !.trace = Append(@, e)]
Raise(s, exc) == [s EXCEPT !.outcome = exc]
\* A call that raised inside a try/except Exception of a teardown path.
Swallowed(s, e) == [Log(s, e) EXCEPT !.teardown_failed = TRUE]

\* psycopg2: self.conn.autocommit = False; pymysql: the client's default.
Autocommit == IF db_type = "postgresql" THEN FALSE ELSE client_autocommit

\* A statement sent by call `who`: without autocommit it joins (or begins) the
\* transaction open on the connection.
Stmt(s, who) == IF Autocommit THEN s ELSE [s EXCEPT !.pending = @ \cup {who}]
\* commit() / rollback() that succeeded, or the connection going away.
EndTxn(s) == [s EXCEPT !.pending = {}]

\* Outcomes of the library calls, chosen by the environment.
TunnelOutcomes == {"ok", "key_io", "key_ssh", "start_inactive", "start_active"}
ClientOutcomes == {"ok", "raise"}
DBProbeOutcomes == {"ok", "raise"}
RedisProbeOutcomes == {"ok", "raise", "false"}
CloseOutcomes == {"ok", "raise_closed", "raise_open"}
StopOutcomes == {"ok", "raise_stopped", "raise_active"}

\* except clauses of the two connect() methods.
DBCaught == {"DBError", "ValueError"}
RedisCaught == {"RedisError", "BaseSSHTunnelForwarderError", "SSHException"}

----------------------------------------------------------------------------
\* What _setup_ssh_tunnel returns: '127.0.0.1' and forwarder t's local_bind_port.
LocalEndpoint(t) == "local:" \o ToString(t)

\* SSHTunnelManager._setup_ssh_tunnel: load the key, build the forwarder, start it.
setup_ssh_tunnel(s, res) ==
    IF res = "key_io" THEN Raise(Log(s, "load_pkey!"), "OSError")
    ELSE IF res = "key_ssh" THEN Raise(Log(s, "load_pkey!"), "SSHException")
    ELSE LET t == s.nTunnels + 1
             s1 == [s EXCEPT !.tunnel = t, !.nTunnels = t, !.tunnelRemote = s.host]
             up == [s1 EXCEPT !.activeTunnels = @ \cup {t}]
         IN  IF res = "ok" THEN Log(up, "tunnel.start")
             ELSE IF res = "start_active"
                  THEN Raise(Log(up, "tunnel.start!"), "BaseSSHTunnelForwarderError")
                  ELSE Raise(Log(s1, "tunnel.start!"), "BaseSSHTunnelForwarderError")

\* tunnel.stop() inside try/except Exception: the error is logged, not raised.
tunnel_stop(s, stopRes) ==
    IF stopRes = "ok" THEN Log([s EXCEPT !.activeTunnels = @ \ {s.tunnel}], "tunnel.stop")
    ELSE IF stopRes = "raise_stopped"
         THEN Swallowed([s EXCEPT !.activeTunnels = @ \ {s.tunnel}], "tunnel.stop!")
         ELSE Swallowed(s, "tunnel.stop!")

\* SSHTunnelManager._close_ssh_tunnel
close_ssh_tunnel(s, stopRes) ==
    IF s.tunnel # 0 /\ s.tunnel \in s.activeTunnels
    THEN [tunnel_stop(s, stopRes) EXCEPT !.tunnel = 0]
    ELSE s

\* conn.close() inside try/except Exception: the error is logged, not raised.
conn_close(s, closeRes) ==
    IF closeRes = "ok" THEN Log([s EXCEPT !.openConns = @ \ {s.conn}], "conn.close")
    ELSE IF closeRes = "raise_closed"
         THEN Swallowed([s EXCEPT !.openConns = @ \ {s.conn}], "conn.close!")
         ELSE Swallowed(s, "conn.close!")

----------------------------------------------------------------------------
\* RedisConnector.disconnect
redis_close_conn(s, closeRes) ==
    IF s.conn # 0 THEN [conn_close(s, closeRes) EXCEPT !.conn = 0] ELSE s

redis_disconnect(s, closeRes, stopRes) ==
    LET s0 == Log(s, "disconnect")
        s1 == redis_close_conn(s0, closeRes)
        s2 == IF use_ssh THEN close_ssh_tunnel(s1, stopRes) ELSE s1
    IN  Log([s2 EXCEPT !.is_connected = FALSE], "mark_disconnected")

\* RedisConnector.connect, the try block.
redis_connect_try(s, tun, probe) ==
    LET t == setup_ssh_tunnel(s, tun)
        s1 == IF use_ssh
              THEN (IF t.outcome = "ok" THEN [t EXCEPT !.host = LocalEndpoint(t.tunnel)]
                                        ELSE t)
              ELSE s
    IN  IF s1.outcome # "ok" THEN s1
        ELSE LET c == s1.nConns + 1
                 s2 == Log([s1 EXCEPT !.conn = c, !.nConns = c, !.connPeer = s1.host],
                           "client.connect")
                 reached == [s2 EXCEPT !.openConns = @ \cup {c}]
             IN  IF probe = "raise" THEN Raise(Log(s2, "probe!"), "RedisError")
                 ELSE IF probe = "false"
                      THEN Raise(Log(reached, "probe:false"), "ConnectionError")
                      ELSE Log([Log(reached, "probe") EXCEPT !.is_connected = TRUE],
                               "mark_connected")

\* RedisConnector.connect
redis_connect(s, tun, probe, closeRes, stopRes) ==
    IF s.is_connected THEN Log(s, "warn")
    ELSE LET body == redis_connect_try(s, tun, probe)
             d == redis_disconnect(Raise(body, "ok"), closeRes, stopRes)
         IN  IF body.outcome \in RedisCaught
             THEN (IF d.outcome # "ok" THEN d ELSE Raise(d, body.outcome))
             ELSE body

----------------------------------------------------------------------------
\* DBConnector.disconnect
\* Mutant: the connection block without "if open" and without self.conn = None.
db_close_conn_keeps_handle(s, closeRes) ==
    IF s.conn # 0 THEN conn_close(s, closeRes) ELSE s

db_close_conn(s, closeRes) ==
    IF s.conn # 0
    THEN LET s1 == IF db_type \in {"mysql", "postgresql"} /\ s.conn \in s.openConns
                   THEN conn_close(s, closeRes)
                   ELSE s
         IN  EndTxn([s1 EXCEPT !.conn = 0])
    ELSE s

db_close_tunnel(s, stopRes) ==
    IF s.tunnel # 0 /\ s.tunnel \in s.activeTunnels
    THEN [tunnel_stop(s, stopRes) EXCEPT !.tunnel = 0]
    ELSE s

\* Mutant: disconnect() that stops the tunnel and forgets the connection block.
db_disconnect_keeps_conn(s, closeRes, stopRes) ==
    LET s0 == Log(s, "disconnect")
        s2 == db_close_tunnel(s0, stopRes)
    IN  Log([s2 EXCEPT !.is_connected = FALSE], "mark_disconnected")

\* Mutant: disconnect() that stops the tunnel before it closes the connection.
db_disconnect_tunnel_first(s, closeRes, stopRes) ==
    LET s0 == Log(s, "disconnect")
        s1 == db_close_tunnel(s0, stopRes)
        s2 == db_close_conn(s1, closeRes)
    IN  Log([s2 EXCEPT !.is_connected = FALSE], "mark_disconnected")

\* Mutant: disconnect() whose connection close is not wrapped in try/except.
db_disconnect_close_propagates(s, closeRes, stopRes) ==
    LET s0 == Log(s, "disconnect")
        s1 == db_close_conn(s0, closeRes)
        s2 == db_close_tunnel(s1, stopRes)
    IN  IF \E i \in 1..Len(s1.trace) : s1.trace[i] = "conn.close!"
        THEN Raise([s1 EXCEPT !.conn = s.conn], "DBError")
        ELSE Log([s2 EXCEPT !.is_connected = FALSE], "mark_disconnected")

db_disconnect(s, closeRes, stopRes) ==
    LET s0 == Log(s, "disconnect")
        s1 == db_close_conn(s0, closeRes)
        s2 == db_close_tunnel(s1, stopRes)
    IN  Log([s2 EXCEPT !.is_connected = FALSE], "mark_disconnected")

\* pymysql.connect / psycopg2.connect to (local_host, local_port).
db_client_connect(s, cli, peer) ==
    IF cli = "raise" THEN Raise(Log(s, "client.connect!"), "DBError")
    ELSE LET c == s.nConns + 1
         IN  Log(EndTxn([s EXCEPT !.conn = c, !.nConns = c, !.connPeer = peer,
                                  !.openConns = @ \cup {c}]), "client.connect")

\* Mutant: connect() that hands the configured host to the client even when
\* a tunnel was set up.
db_connect_try_ignores_tunnel(s, tun, cli, probe) ==
    LET s1 == IF use_ssh THEN setup_ssh_tunnel(s, tun) ELSE s
        peer == s.host
    IN  IF s1.outcome # "ok" THEN s1
        ELSE IF db_type \notin {"mysql", "postgresql"} THEN Raise(s1, "ValueError")
        ELSE LET s2 == db_client_connect(s1, cli, peer)
             IN  IF s2.outcome # "ok" THEN s2
                 ELSE IF probe = "raise"
                      THEN Raise(Log(Stmt(s2, "probe"), "probe!"), "DBError")
                 ELSE Log([Log(Stmt(s2, "probe"), "probe") EXCEPT !.is_connected = TRUE],
                          "mark_connected")

\* DBConnector.connect, the try block.
db_connect_try(s, tun, cli, probe) ==
    LET s1 == IF use_ssh THEN setup_ssh_tunnel(s, tun) ELSE s
        peer == IF use_ssh THEN LocalEndpoint(s1.tunnel) ELSE s.host
    IN  IF s1.outcome # "ok" THEN s1
        ELSE IF db_type \notin {"mysql", "postgresql"} THEN Raise(s1, "ValueError")
        ELSE LET s2 == db_client_connect(s1, cli, peer)
             IN  IF s2.outcome # "ok" THEN s2
                 ELSE IF probe = "raise"
                      THEN Raise(Log(Stmt(s2, "probe"), "probe!"), "DBError")
                 ELSE Log([Log(Stmt(s2, "probe"), "probe") EXCEPT !.is_connected = TRUE],
                          "mark_connected")

\* Mutant: connect() without the "already connected" early return.
db_connect_no_guard(s, tun, cli, probe, closeRes, stopRes) ==
    LET body == db_connect_try(s, tun, cli, probe)
        d == db_disconnect(Raise(body, "ok"), closeRes, stopRes)
    IN  IF body.outcome \in DBCaught
        THEN (IF d.outcome # "ok" THEN d ELSE Raise(d, body.outcome))
        ELSE body

\* DBConnector.connect
db_connect(s, tun, cli, probe, closeRes, stopRes) ==
    IF s.is_connected THEN Log(s, "warn")
    ELSE LET body == db_connect_try(s, tun, cli, probe)
             d == db_disconnect(Raise(body, "ok"), closeRes, stopRes)
         IN  IF body.outcome \in DBCaught
             THEN (IF d.outcome # "ok" THEN d ELSE Raise(d, body.outcome))
             ELSE body

\* DBConnector.execute_query, after the "not connected" check: the try block
\* and its except clause.
execute_query_run(s, ex, rb) ==
    LET s1 == Stmt(Log(s, "cursor"), "execute_query")
    IN  IF ex = "ok" THEN Log(Log(s1, "execute"), "fetchall")
        ELSE LET s2 == Log(s1, "execute!")
             IN  IF s2.conn = 0 THEN Raise(s2, "DBError")
                 ELSE IF rb = "ok" THEN Raise(Log(EndTxn(s2), "rollback"), "DBError")
                 ELSE Raise(Log(s2, "rollback!"), "RollbackError")

\* Mutant: execute_query without the "not connected" check.
execute_query_no_guard(s, ex, rb) == execute_query_run(s, ex, rb)

\* DBConnector.execute_query
execute_query(s, ex, rb) ==
    IF ~s.is_connected \/ s.conn = 0 THEN Raise(s, "ConnectionError")
    ELSE execute_query_run(s, ex, rb)

\* Mutant: execute_update whose except clause re-raises without a rollback.
execute_update_run_no_rollback(s, ex, cm, rb) ==
    LET s1 == Stmt(Log(s, "cursor"), "execute_update")
        s2 == IF ex = "ok"
              THEN (IF cm = "ok" THEN Log(EndTxn(Log(s1, "execute")), "commit")
                                 ELSE Raise(Log(Log(s1, "execute"), "commit!"), "DBError"))
              ELSE Raise(Log(s1, "execute!"), "DBError")
    IN  IF s2.outcome = "ok" THEN Log(s2, "return rowcount") ELSE s2

\* DBConnector.execute_update, after the "not connected" check.
execute_update_run(s, ex, cm, rb) ==
    LET s1 == Stmt(Log(s, "cursor"), "execute_update")
        s2 == IF ex = "ok"
              THEN (IF cm = "ok" THEN Log(EndTxn(Log(s1, "execute")), "commit")
                                 ELSE Raise(Log(Log(s1, "execute"), "commit!"), "DBError"))
              ELSE Raise(Log(s1, "execute!"), "DBError")
    IN  IF s2.outcome = "ok" THEN Log(s2, "return rowcount")
        ELSE IF s2.conn = 0 THEN s2
        ELSE IF rb = "ok" THEN Log(EndTxn(s2), "rollback")
        ELSE Raise(Log(s2, "rollback!"), "RollbackError")

\* DBConnector.execute_update
execute_update(s, ex, cm, rb) ==
    IF ~s.is_connected \/ s.conn = 0 THEN Raise(s, "ConnectionError")
    ELSE execute_update_run(s, ex, cm, rb)

\* DBConnector.__enter__ / __exit__: __exit__ returns None, so an exception
\* raised by the body of the with-block (exc) is not suppressed.
db_enter(s, tun, cli, probe, closeRes, stopRes) ==
    db_connect(s, tun, cli, probe, closeRes, stopRes)

\* Mutant: __exit__ that disconnects only when the body did not raise.
db_exit_only_on_success(s, exc, closeRes, stopRes) ==
    IF exc # "none" THEN Raise(s, exc) ELSE db_disconnect(s, closeRes, stopRes)

db_exit(s, exc, closeRes, stopRes) ==
    LET d == db_disconnect(s, closeRes, stopRes)
    IN  IF d.outcome # "ok" THEN d
        ELSE IF exc # "none" THEN Raise(d, exc) ELSE d

\* RedisConnector.__enter__ / __exit__
redis_enter(s, tun, probe, closeRes, stopRes) ==
    redis_connect(s, tun, probe, closeRes, stopRes)

redis_exit(s, exc, closeRes, stopRes) ==
    LET d == redis_disconnect(s, closeRes, stopRes)
    IN  IF d.outcome # "ok" THEN d
        ELSE IF exc # "none" THEN Raise(d, exc) ELSE d

\* What the body of a with-block hands to __exit__.
BodyOutcomes == {"none", "BodyError"}
ExecOutcomes == {"ok", "raise"}

\* The state __exit__ starts from: the body's exception, if any, is in flight.
AfterBody(exc) == IF exc = "none" THEN Cur ELSE Log(Cur, "body!")

----------------------------------------------------------------------------
\* src/pymysql/database.py, class MySQL.

\* MySQL.connect: pymysql.connect(...), then self.conn.cursor().
my_connect(s, cn) ==
    IF cn = "raise" THEN Raise(Log(s, "connect!"), "ConnectError")
    ELSE LET c == s.nConns + 1
         IN  Log([s EXCEPT !.conn = c, !.cursor = c, !.nConns = c,
                           !.openConns = @ \cup {c}], "connect")

\* MySQL.close: neither call is guarded, and neither field is reset.  close()
\* on a connection that is already closed raises.
my_close(s, cl) ==
    LET s1 == IF s.cursor # 0 THEN Log(s, "cursor.close") ELSE s
        gone == [s1 EXCEPT !.openConns = @ \ {s1.conn}]
    IN  IF s1.conn = 0 THEN s1
        ELSE IF s1.conn \notin s1.openConns
             THEN Raise(Log(s1, "conn.close:stale!"), "AlreadyClosed")
        ELSE IF cl = "ok" THEN Log(gone, "conn.close")
        ELSE IF cl = "raise_closed"
             THEN Raise([Log(gone, "conn.close!") EXCEPT !.teardown_failed = TRUE],
                        "CloseError")
        ELSE Raise([Log(s1, "conn.close!") EXCEPT !.teardown_failed = TRUE],
                   "CloseError")

\* self.conn.rollback() in the except block of MySQL.execute.
my_rollback(s, rb) ==
    IF s.conn = 0 THEN Raise(Log(s, "rollback:None!"), "AttributeError")
    ELSE IF s.conn \notin s.openConns
         THEN Raise(Log(s, "rollback:stale!"), "InterfaceError")
    ELSE IF rb = "raise" THEN Raise(Log(s, "rollback!"), "RollbackError")
    ELSE Log(s, "rollback")

\* try / finally: the exception of the finally block, if it raises, replaces
\* the one in flight.
Finally(h, f) == IF f.outcome # "ok" THEN f ELSE Raise(f, h.outcome)

\* MySQL.execute, the try block.
my_execute_try(s, cn, ex, cm) ==
    LET s1 == my_connect(s, cn)
    IN  IF s1.outcome # "ok" THEN s1
        ELSE IF ex = "raise" THEN Raise(Log(s1, "execute!"), "ExecuteError")
        ELSE IF cm = "raise"
             THEN Raise(Log(Log(s1, "execute"), "commit!"), "CommitError")
        ELSE Log(Log(Log(s1, "execute"), "commit"), "result")

\* MySQL.execute
my_execute(s, cn, ex, cm, rb, cl) ==
    LET t == my_execute_try(s, cn, ex, cm)
        r == my_rollback(Raise(t, "ok"), rb)
        h == IF t.outcome = "ok" THEN t
             ELSE IF r.outcome # "ok" THEN r
             ELSE Raise(r, t.outcome)
    IN  Finally(h, my_close(Raise(h, "ok"), cl))

\* MySQL.fetchall / MySQL.fetchone: connect, a DictCursor replaces the cursor
\* connect() made, execute, fetch; except re-raises; finally close.
my_fetch(s, cn, ex, cl) ==
    LET s1 == my_connect(s, cn)
        h == IF s1.outcome # "ok" THEN s1
             ELSE IF ex = "raise"
                  THEN Raise(Log([s1 EXCEPT !.cursor = s1.conn], "execute!"),
                             "ExecuteError")
             ELSE Log(Log([s1 EXCEPT !.cursor = s1.conn], "execute"), "result")
    IN  Finally(h, my_close(Raise(h, "ok"), cl))

my_fetchall(s, cn, ex, cl) == my_fetch(s, cn, ex, cl)
my_fetchone(s, cn, ex, cl) == my_fetch(s, cn, ex, cl)

----------------------------------------------------------------------------
\* Keys of the config dict that the constructors look at.
DBRequired == {"db_type", "db_host", "db_port", "db_user", "db_name"}
SSHRequired == {"ssh_host", "ssh_username"}
DBKeys == DBRequired \cup SSHRequired
RedisKeys == {"redis_host"} \cup SSHRequired
KeysOf(c) == IF c = "DBConnector" THEN DBKeys ELSE RedisKeys

\* Mutant: DBConnector.__init__ without the SSH-mode check.
db_init_no_ssh_check(keys, ssh) ==
    IF \E f \in DBRequired : f \notin keys THEN "ValueError" ELSE "ok"

\* DBConnector.__init__: "ok", or the exception it raises.
db_init(keys, ssh) ==
    IF \E f \in DBRequired : f \notin keys THEN "ValueError"
    ELSE IF ssh /\ ~(\A k \in SSHRequired : k \in keys) THEN "ValueError"
    ELSE "ok"

\* RedisConnector.__init__ (a key that is present holds a non-empty value).
redis_init(keys, ssh) ==
    IF ssh /\ ~(\A k \in SSHRequired : k \in keys) THEN "ValueError"
    ELSE IF "redis_host" \notin keys THEN "ValueError"
    ELSE "ok"

\* The fields as the constructors set them.
InitFields ==
    /\ is_connected = FALSE
    /\ conn = 0
    /\ cursor = 0
    /\ tunnel = 0
    /\ host = "remote"
    /\ openConns = {}
    /\ activeTunnels = {}
    /\ nConns = 0
    /\ nTunnels = 0
    /\ tunnelRemote = "none"
    /\ connPeer = "none"
    /\ pending = {}
    /\ outcome = "ok"
    /\ trace = <<>>
    /\ teardown_failed = FALSE
    /\ scope = "out"

Init ==
    /\ cls \in {"DBConnector", "RedisConnector"}
    /\ use_ssh \in BOOLEAN
    /\ db_type \in (IF cls = "DBConnector" THEN {"mysql", "postgresql", "oracle"}
                                           ELSE {"none"})
    /\ client_autocommit \in (IF db_type = "mysql" THEN BOOLEAN ELSE {FALSE})
    /\ cfg = KeysOf(cls)
    /\ constructed = "yes"
    /\ is_connected = FALSE
    /\ conn = 0
    /\ cursor = 0
    /\ tunnel = 0
    /\ host = "remote"
    /\ openConns = {}
    /\ activeTunnels = {}
    /\ nConns = 0
    /\ nTunnels = 0
    /\ tunnelRemote = "none"
    /\ connPeer = "none"
    /\ pending = {}
    /\ op = "init"
    /\ outcome = "ok"
    /\ trace = <<>>
    /\ teardown_failed = FALSE
    /\ scope = "out"

\* The fields of the object and the resources it created.
fields == <<is_connected, conn, cursor, tunnel, host, openConns, activeTunnels, nConns,
            nTunnels, tunnelRemote, connPeer, pending, teardown_failed>>

\* A connect() that is not a no-op creates objects: stop at the model's bounds.
CanCreate == is_connected \/ (nConns < MaxConns /\ nTunnels < MaxTunnels)

DBConnector_connect ==
    /\ cls = "DBConnector"
    /\ CanCreate
    /\ \E tun \in TunnelOutcomes, cli \in ClientOutcomes, probe \in DBProbeOutcomes,
          closeRes \in CloseOutcomes, stopRes \in StopOutcomes :
          Set(db_connect(Cur, tun, cli, probe, closeRes, stopRes))
    /\ op' = "connect"
    /\ UNCHANGED <<config, constructed, scope>>

DBConnector_disconnect ==
    /\ cls = "DBConnector"
    /\ \E closeRes \in CloseOutcomes, stopRes \in StopOutcomes :
          Set(db_disconnect(Cur, closeRes, stopRes))
    /\ op' = "disconnect"
    /\ UNCHANGED <<config, constructed, scope>>

RedisConnector_connect ==
    /\ cls = "RedisConnector"
    /\ CanCreate
    /\ \E tun \in TunnelOutcomes, probe \in RedisProbeOutcomes,
          closeRes \in CloseOutcomes, stopRes \in StopOutcomes :
          Set(redis_connect(Cur, tun, probe, closeRes, stopRes))
    /\ op' = "connect"
    /\ UNCHANGED <<config, constructed, scope>>

RedisConnector_disconnect ==
    /\ cls = "RedisConnector"
    /\ \E closeRes \in CloseOutcomes, stopRes \in StopOutcomes :
          Set(redis_disconnect(Cur, closeRes, stopRes))
    /\ op' = "disconnect"
    /\ UNCHANGED <<config, constructed, scope>>

DBConnector_execute_query ==
    /\ cls = "DBConnector"
    /\ \E ex \in ExecOutcomes, rb \in ExecOutcomes : Set(execute_query(Cur, ex, rb))
    /\ op' = "execute_query"
    /\ UNCHANGED <<config, constructed, scope>>

DBConnector_execute_update ==
    /\ cls = "DBConnector"
    /\ \E ex \in ExecOutcomes, cm \in ExecOutcomes, rb \in ExecOutcomes :
          Set(execute_update(Cur, ex, cm, rb))
    /\ op' = "execute_update"
    /\ UNCHANGED <<config, constructed, scope>>

\* with DBConnector(...) as db: the scope is entered only if __enter__ returns.
DBConnector_enter ==
    /\ cls = "DBConnector"
    /\ scope = "out"
    /\ CanCreate
    /\ \E tun \in TunnelOutcomes, cli \in ClientOutcomes, probe \in DBProbeOutcomes,
          closeRes \in CloseOutcomes, stopRes \in StopOutcomes :
          LET r == db_enter(Cur, tun, cli, probe, closeRes, stopRes)
          IN  /\ Set(r)
              /\ scope' = IF r.outcome = "ok" THEN "in" ELSE "out"
    /\ op' = "enter"
    /\ UNCHANGED <<config, constructed>>

DBConnector_exit ==
    /\ cls = "DBConnector"
    /\ scope = "in"
    /\ \E exc \in BodyOutcomes, closeRes \in CloseOutcomes, stopRes \in StopOutcomes :
          Set(db_exit(AfterBody(exc), exc, closeRes, stopRes))
    /\ op' = "exit"
    /\ scope' = "out"
    /\ UNCHANGED <<config, constructed>>

RedisConnector_enter ==
    /\ cls = "RedisConnector"
    /\ scope = "out"
    /\ CanCreate
    /\ \E tun \in TunnelOutcomes, probe \in RedisProbeOutcomes,
          closeRes \in CloseOutcomes, stopRes \in StopOutcomes :
          LET r == redis_enter(Cur, tun, probe, closeRes, stopRes)
          IN  /\ Set(r)
              /\ scope' = IF r.outcome = "ok" THEN "in" ELSE "out"
    /\ op' = "enter"
    /\ UNCHANGED <<config, constructed>>

RedisConnector_exit ==
    /\ cls = "RedisConnector"
    /\ scope = "in"
    /\ \E exc \in BodyOutcomes, closeRes \in CloseOutcomes, stopRes \in StopOutcomes :
          Set(redis_exit(AfterBody(exc), exc, closeRes, stopRes))
    /\ op' = "exit"
    /\ scope' = "out"
    /\ UNCHANGED <<config, constructed>>

Next ==
    \/ DBConnector_connect
    \/ DBConnector_disconnect
    \/ DBConnector_execute_query
    \/ DBConnector_execute_update
    \/ DBConnector_enter
    \/ DBConnector_exit
    \/ RedisConnector_connect
    \/ RedisConnector_disconnect
    \/ RedisConnector_enter
    \/ RedisConnector_exit

Spec == Init /\ [][Next]_vars

----------------------------------------------------------------------------
\* Construction from an arbitrary config dict, then connect / disconnect.
InitConfig ==
    /\ cls \in {"DBConnector", "RedisConnector"}
    /\ use_ssh \in BOOLEAN
    /\ cfg \in SUBSET KeysOf(cls)
    /\ db_type \in (IF "db_type" \in cfg THEN {"mysql", "postgresql", "oracle"}
                                         ELSE {"none"})
    /\ client_autocommit = FALSE
    /\ constructed = "no"
    /\ op = "new"
    /\ InitFields

DBConnector_init ==
    /\ cls = "DBConnector"
    /\ constructed = "no"
    /\ outcome' = db_init(cfg, use_ssh)
    /\ constructed' = IF outcome' = "ok" THEN "yes" ELSE "failed"
    /\ op' = "init"
    /\ UNCHANGED <<config, fields, trace, scope>>

RedisConnector_init ==
    /\ cls = "RedisConnector"
    /\ constructed = "no"
    /\ outcome' = redis_init(cfg, use_ssh)
    /\ constructed' = IF outcome' = "ok" THEN "yes" ELSE "failed"
    /\ op' = "init"
    /\ UNCHANGED <<config, fields, trace, scope>>

\* Methods can be called only on an object whose constructor returned.
NextConfig ==
    \/ DBConnector_init
    \/ RedisConnector_init
    \/ constructed = "yes" /\ DBConnector_connect
    \/ constructed = "yes" /\ DBConnector_disconnect
    \/ constructed = "yes" /\ RedisConnector_connect
    \/ constructed = "yes" /\ RedisConnector_disconnect

SpecConfig == InitConfig /\ [][NextConfig]_vars

----------------------------------------------------------------------------
\* One MySQL object (src/pymysql/database.py) and any sequence of its calls.
InitMySQL ==
    /\ cls = "MySQL"
    /\ use_ssh = FALSE
    /\ db_type = "mysql"
    /\ client_autocommit = FALSE
    /\ cfg = {}
    /\ constructed = "yes"
    /\ op = "init"
    /\ InitFields

MySQL_execute ==
    /\ nConns < MaxConns
    /\ \E cn \in ClientOutcomes, ex \in ExecOutcomes, cm \in ExecOutcomes,
          rb \in ExecOutcomes, cl \in CloseOutcomes :
          Set(my_execute(Cur, cn, ex, cm, rb, cl))
    /\ op' = "execute"
    /\ UNCHANGED <<config, constructed, scope>>

MySQL_fetchall ==
    /\ nConns < MaxConns
    /\ \E cn \in ClientOutcomes, ex \in ExecOutcomes, cl \in CloseOutcomes :
          Set(my_fetchall(Cur, cn, ex, cl))
    /\ op' = "fetchall"
    /\ UNCHANGED <<config, constructed, scope>>

MySQL_fetchone ==
    /\ nConns < MaxConns
    /\ \E cn \in ClientOutcomes, ex \in ExecOutcomes, cl \in CloseOutcomes :
          Set(my_fetchone(Cur, cn, ex, cl))
    /\ op' = "fetchone"
    /\ UNCHANGED <<config, constructed, scope>>

NextMySQL ==
    \/ MySQL_execute
    \/ MySQL_fetchall
    \/ MySQL_fetchone

SpecMySQL == InitMySQL /\ [][NextMySQL]_vars

----------------------------------------------------------------------------
\* Reading the log of the last method.
Has(e) == \E i \in 1..Len(trace) : trace[i] = e
ClientEvents == {"client.connect", "client.connect!"}
CloseEvents == {"conn.close", "conn.close!"}
StopEvents == {"tunnel.stop", "tunnel.stop!"}
HasAny(E) == \E i \in 1..Len(trace) : trace[i] \in E
Count(e) == Cardinality({i \in 1..Len(trace) : trace[i] = e})
ConnectOps == {"connect", "enter"}
DisconnectOps == {"disconnect", "exit"}
HoldsOpenConn == conn # 0 /\ conn \in openConns
TunnelOpen == tunnel # 0 /\ tunnel \in activeTunnels
ProbeFailed == Has("probe!") \/ Has("probe:false")
EarlyFailure == Has("load_pkey!") \/ Has("tunnel.start!") \/ Has("client.connect!")
TeardownFailedNow == Has("conn.close!") \/ Has("tunnel.stop!")

\* C1: with tunneling requested, after every method call the session holds no
\* open backing connection unless its tunnel is open; inside a method the
\* client is created only after a tunnel start that succeeded, and the tunnel
\* is stopped only after the connection's close.
C1_TunnelContainsConnection ==
    use_ssh =>
        /\ HoldsOpenConn => TunnelOpen
        /\ \A i \in 1..Len(trace) :
              trace[i] \in ClientEvents => \E j \in 1..(i - 1) : trace[j] = "tunnel.start"
        /\ \A i, j \in 1..Len(trace) :
              trace[i] \in StopEvents /\ trace[j] \in CloseEvents => j < i

\* C1 witness: a query failed on a connected tunneling session that was
\* reconnected before; the connection is open and so is the tunnel.
C1_Witness ==
    /\ use_ssh /\ is_connected /\ HoldsOpenConn /\ TunnelOpen
    /\ op = "execute_query" /\ outcome = "DBError" /\ nConns = 2

\* C2 (as claimed): a connect() whose liveness probe failed raises and leaves
\* the session Disconnected: not connected, no handle held, no tunnel open
\* (teardown calls that themselves raised are left aside).
C2_ProbeFailureDisconnects ==
    (op \in ConnectOps /\ ProbeFailed /\ ~TeardownFailedNow) =>
        /\ outcome # "ok"
        /\ ~is_connected
        /\ conn = 0
        /\ ~TunnelOpen

\* C3 (as claimed): a connect() that failed while opening the tunnel or while
\* connecting the client called disconnect() and raised to the caller.
C3_EarlyFailureUnwinds ==
    (op \in ConnectOps /\ EarlyFailure) => (Has("disconnect") /\ outcome # "ok")

\* C4 (as claimed): after disconnect() returns the session is not connected,
\* holds no handle, and no forward it ever opened is still active (runs in
\* which a close() or stop() call raised are left aside).
C4_DisconnectLeavesNothing ==
    (op \in DisconnectOps /\ ~teardown_failed) =>
        /\ ~is_connected
        /\ conn = 0
        /\ activeTunnels = {}

\* C5: every disconnect() runs its steps in one order: the connection's close,
\* then the tunnel's stop, then the mark; when the tunnel's stop is called the
\* session has already let go of its connection.
C5_DisconnectOrder ==
    /\ \A i, j \in 1..Len(trace) :
          /\ (trace[i] \in CloseEvents /\ trace[j] \in StopEvents) => i < j
          /\ (trace[i] \in CloseEvents \cup StopEvents /\ trace[j] = "mark_disconnected")
                => i < j
    /\ Has("disconnect") =>
          /\ trace[Len(trace)] = "mark_disconnected"
          /\ ~is_connected
    /\ HasAny(StopEvents) => conn = 0

\* C5 witness: a disconnect() that closed a connection and stopped a tunnel.
C5_Witness ==
    /\ op = "disconnect"
    /\ Has("conn.close") /\ Has("tunnel.stop") /\ Has("mark_disconnected")


\* C6: disconnect() never raises, whatever close() and stop() do: it returns
\* with the session marked not connected and the handle dropped, and it calls
\* close on an open held connection and stop on an active held tunnel, each
\* whether or not the other raised.
C6_DisconnectNeverRaises ==
    [][op' = "disconnect" =>
          /\ outcome' = "ok"
          /\ ~is_connected'
          /\ conn' = 0
          /\ trace'[Len(trace')] = "mark_disconnected"
          /\ HoldsOpenConn => \E i \in 1..Len(trace') : trace'[i] \in CloseEvents
          /\ TunnelOpen => /\ \E i \in 1..Len(trace') : trace'[i] \in StopEvents
                           /\ tunnel' = 0]_vars

\* C6 witness: a disconnect() in which both close() and stop() raised.
C6_Witness ==
    /\ op = "disconnect" /\ outcome = "ok" /\ ~is_connected
    /\ Has("conn.close!") /\ Has("tunnel.stop!")

\* C7: connect() on a connected session only warns: it starts no tunnel,
\* creates no client, runs no probe and changes no field.
C7_ConnectWhenConnectedIsNoOp ==
    [][(is_connected /\ op' \in ConnectOps) =>
          /\ trace' = <<"warn">>
          /\ outcome' = "ok"
          /\ UNCHANGED fields]_vars

\* C7 witness: a second connect() on a tunneling session that set up once.
C7_Witness ==
    /\ op = "connect" /\ trace = <<"warn">> /\ is_connected
    /\ use_ssh /\ nConns = 1 /\ nTunnels = 1

\* C8: a disconnect() that follows a disconnect() (or the construction) raises
\* nothing, calls neither close nor stop, and changes no field.
C8_DisconnectIdempotent ==
    [][(op \in DisconnectOps \cup {"init"} /\ op' = "disconnect") =>
          /\ outcome' = "ok"
          /\ \A i \in 1..Len(trace') : trace'[i] \notin CloseEvents \cup StopEvents
          /\ UNCHANGED fields]_vars

\* C8 witness: a disconnect() that found nothing to close on a session that
\* had connected through a tunnel before.
C8_Witness ==
    /\ op = "disconnect" /\ trace = <<"disconnect", "mark_disconnected">>
    /\ nConns = 1 /\ nTunnels = 1 /\ openConns = {} /\ activeTunnels = {}

\* C9: leaving a with-block calls disconnect() exactly once, and the caller
\* gets the body's exception if the body raised, nothing otherwise.
C9_ScopeExitDisconnectsOnce ==
    op = "exit" =>
        /\ Count("disconnect") = 1
        /\ scope = "out"
        /\ outcome = (IF Has("body!") THEN "BodyError" ELSE "ok")

\* C9 witness: a with-block whose body raised, on a connected session.
C9_Witness ==
    /\ op = "exit" /\ Has("body!") /\ outcome = "BodyError"
    /\ Count("disconnect") = 1 /\ HasAny(CloseEvents)

\* C10: execute_query / execute_update on a session that is not connected
\* raise ConnectionError, make no cursor, execute, commit or rollback call and
\* change no field.
C10_QueryWhenDisconnectedRaises ==
    [][(~is_connected /\ op' \in {"execute_query", "execute_update"}) =>
          /\ outcome' = "ConnectionError"
          /\ trace' = <<>>
          /\ UNCHANGED fields]_vars

\* C10 witness: execute_update refused after the session was disconnected.
C10_Witness ==
    /\ op = "execute_update" /\ outcome = "ConnectionError" /\ trace = <<>>
    /\ ~is_connected /\ nConns = 1


\* Position of the first occurrence of e in the log (0 if absent).
Pos(e) == IF Has(e) THEN CHOOSE i \in 1..Len(trace) :
                            trace[i] = e /\ \A j \in 1..(i - 1) : trace[j] # e
          ELSE 0
Ran == Has("cursor")

C12_RollbackFailureKeepsOriginalError ==
    (op \in {"execute_query", "execute_update"} /\ Has("rollback!")) =>
        outcome = "DBError"


\* What C13 calls a config the constructor must reject.
ConfigRejected ==
    \/ cls = "DBConnector" /\ \E f \in DBRequired : f \notin cfg
    \/ use_ssh /\ \E k \in SSHRequired : k \notin cfg

\* C13: a DBConnector config lacking a required db_* key, or either connector
\* with use_ssh and ssh_host or ssh_username absent, makes the constructor
\* raise ValueError: no object results, and no tunnel or client was created.
C13_InvalidConfigFailsConstruction ==
    /\ (constructed # "no" /\ ConfigRejected) =>
          (constructed = "failed" /\ outcome = "ValueError")
    /\ constructed # "yes" => (nTunnels = 0 /\ nConns = 0 /\ trace = <<>>)

\* C13 witness: DBConnector construction refused for a config without db_name.
C13_Witness ==
    /\ cls = "DBConnector" /\ constructed = "failed" /\ outcome = "ValueError"
    /\ cfg = DBKeys \ {"db_name"}


\* C14 (as claimed): a session whose configuration is invalid (a config the
\* constructor must reject, or a db_type other than mysql / postgresql) never
\* starts a tunnel and never creates a client connection.
C14_ConfigErrorBeforeNetwork ==
    (ConfigRejected \/ (cls = "DBConnector" /\ db_type \notin {"mysql", "postgresql"}))
        => (nTunnels = 0 /\ nConns = 0 /\ activeTunnels = {})


\* C15: after a connect() that succeeded, a tunneling session has its tunnel
\* open and its client was pointed at that tunnel's local endpoint, not at the
\* configured host; without tunneling the client was pointed at the
\* configured host and no forwarder exists.
C15_ClientPeerIsTunnelEndpoint ==
    (op \in ConnectOps /\ Has("mark_connected")) =>
        IF use_ssh
        THEN /\ TunnelOpen
             /\ connPeer = LocalEndpoint(tunnel)
             /\ connPeer # "remote"
        ELSE /\ connPeer = "remote"
             /\ nTunnels = 0

\* C15 witness: a tunneling session reconnected through its second forwarder.
C15_Witness ==
    /\ use_ssh /\ op = "connect" /\ Has("mark_connected")
    /\ tunnel = 2 /\ connPeer = LocalEndpoint(2) /\ is_connected


\* C16 (as claimed): every forwarder a tunneling session creates, over any
\* number of connect / disconnect cycles, is requested for the configured
\* remote host, never for a local endpoint left by an earlier connect().
C16_TunnelTargetsConfiguredHost ==
    use_ssh => tunnelRemote \in {"none", "remote"}

\* C17 (as claimed): the forwards the session created and that are active are
\* at most one, and it is the one self.tunnel names (runs in which a close()
\* or stop() call raised are left aside).
C17_AtMostOneActiveForward ==
    ~teardown_failed =>
        /\ Cardinality(activeTunnels) <= 1
        /\ \A t \in activeTunnels : t = tunnel


\* C18 (as claimed): on the PostgreSQL path (autocommit off), when an
\* execute_query or execute_update that ran returns or raises, no statement of
\* that call is left in an open transaction (calls whose rollback itself
\* raised are left aside).
C18_NoTransactionLeftOpen ==
    (op \in {"execute_query", "execute_update"} /\ Ran /\ db_type = "postgresql"
        /\ ~Has("rollback!")) => op \notin pending


MyOps == {"execute", "fetchall", "fetchone"}

\* C19 (as claimed): when a call of MySQL.execute / fetchall / fetchone
\* returns or raises, no connection the object opened is still open, and the
\* call did not call close on a connection an earlier call had closed (runs in
\* which close() on an open connection raised are left aside).
C19_EveryCallClosesWhatItOpened ==
    (op \in MyOps /\ ~teardown_failed) =>
        /\ openConns = {}
        /\ ~Has("conn.close:stale!")

\* C20 (as claimed): when connect, statement execution or commit fails in
\* MySQL.execute, the caller receives that step's exception (calls in which
\* rollback() or close() on an open connection raised are left aside).
C20_FailingStepErrorReachesCaller ==
    (op = "execute" /\ ~Has("rollback!") /\ ~Has("conn.close!")) =>
        /\ Has("connect!") => outcome = "ConnectError"
        /\ Has("execute!") => outcome = "ExecuteError"
        /\ Has("commit!") => outcome = "CommitError"

====
